---- MODULE Spec2Model ----
(***************************************************************************)
(* Model of the ClamAV NIF bridge, lib/native/clamav_nif/src/clamav_nif.c. *)
(*                                                                         *)
(* The state is the set of engine_handle resources the host holds (engine  *)
(* pointer and initialized flag), the native engines behind them, the      *)
(* number of in-memory maps currently open, and a record of the last NIF   *)
(* call: the handle fields it found on entry, the native calls it made and *)
(* the term it returned.  Every NIF is one action: the BEAM runs a NIF to  *)
(* completion on the calling scheduler thread.  The native library         *)
(* (libclamav) and the allocator are the environment: their return values  *)
(* are chosen nondeterministically.                                        *)
(***************************************************************************)
EXTENDS Integers, Sequences, FiniteSets, TLC

\* ------------------------------------------------------------------ bounds
MaxHandles == 1      \* engine_handle resources the host ever obtains
MaxEngines == 2      \* native engines cl_engine_new ever hands out
MaxSigs == 1         \* signatures one cl_load call adds, at most
MaxTotalSigs == 2    \* signatures one engine holds, at most
MaskBits == 6        \* options masks use bits 0 .. MaskBits - 1
MaxCallers == 2      \* processes calling NIFs on one resource at the same time

Handles == 1..MaxHandles
Engines == 1..MaxEngines

\* A NULL pointer; engines are numbered from 1.
NULL == 0
\* A term that is no engine_handle resource (enif_get_resource fails on it).
NotAResource == 0

\* ------------------------------------------------------- program constants
ENGINE_INVALID_ERROR == "Engine resource is invalid or has been freed"
ENGINE_NOT_INITIALIZED_ERROR == "Engine not initialized with database"

\* sizeof(database_path), sizeof(file_path)
PathBufSize == 1024

\* libclamav's public header clamav.h: the flag values the translator uses.
CL_SCAN_GENERAL_ALLMATCHES == 1
CL_SCAN_GENERAL_COLLECT_METADATA == 2
CL_SCAN_GENERAL_HEURISTICS == 4
CL_SCAN_GENERAL_HEURISTIC_PRECEDENCE == 8
CL_SCAN_GENERAL_UNPRIVILEGED == 16
CL_SCAN_PARSE_ARCHIVE == 1
CL_SCAN_PARSE_MAIL == 64
CL_SCAN_PARSE_OLE2 == 128
CL_SCAN_HEURISTIC_BROKEN == 2

\* Native return codes, by name.  CL_CLEAN and CL_SUCCESS are the same code.
CL_SUCCESS == "CL_SUCCESS"
CL_CLEAN == "CL_SUCCESS"
CL_VIRUS == "CL_VIRUS"
NativeErrors == {"CL_EOPEN", "CL_EMEM"}
ScanCodes == {CL_CLEAN, CL_VIRUS} \cup NativeErrors
CallCodes == {CL_SUCCESS} \cup NativeErrors

\* cl_strerror: libclamav's own message for a return code.
cl_strerror(code) ==
    CASE code = "CL_SUCCESS" -> "No viruses detected"
      [] code = "CL_VIRUS" -> "Virus(es) detected"
      [] code = "CL_EOPEN" -> "Can't open file or directory"
      [] code = "CL_EMEM" -> "Can't allocate memory"
      [] OTHER -> "Unknown error code"

\* ------------------------------------------------------------ Erlang terms
\* Every returned term is a record of one shape, so that any two compare.
Term(shape, tag, atom, str, num) ==
    [shape |-> shape, tag |-> tag, atom |-> atom, str |-> str, num |-> num]

\* enif_make_badarg
BadArg == Term("badarg", "", "", "", 0)
\* enif_make_atom(env, "ok")
OkAtom == Term("atom", "ok", "", "", 0)
\* {ok, clean}
OkClean == Term("tuple2", "ok", "clean", "", 0)
\* {ok, virus, Name}
OkVirus(name) == Term("tuple3", "ok", "virus", name, 0)
\* {ok, N}
OkCount(n) == Term("tuple2", "ok", "", "", n)
\* enif_make_ulong(env, version)
ULong(n) == Term("ulong", "", "", "", n)
\* {ok, Resource}: num is the handle
OkResource(h) == Term("tuple2", "ok", "resource", "", h)

make_error(error) == Term("tuple2", "error", "", error, 0)

make_clamav_error(error_code) == make_error(cl_strerror(error_code))

\* ------------------------------------------------------------- bit vectors
RECURSIVE BitAnd(_, _)
BitAnd(a, b) ==
    IF a = 0 \/ b = 0 THEN 0
    ELSE (a % 2) * (b % 2) + 2 * BitAnd(a \div 2, b \div 2)

RECURSIVE BitOr(_, _)
BitOr(a, b) ==
    IF a = 0 THEN b
    ELSE IF b = 0 THEN a
    ELSE (IF a % 2 = 1 \/ b % 2 = 1 THEN 1 ELSE 0) + 2 * BitOr(a \div 2, b \div 2)

RECURSIVE Pow2(_)
Pow2(n) == IF n = 0 THEN 1 ELSE 2 * Pow2(n - 1)

\* Every options mask of MaskBits bits, for the translation on its own; the
\* masks the scans are tried with.
AllBits == Pow2(MaskBits) - 1
Masks == 0..AllBits
SampleMasks == {AllBits}

\* ------------------------------------------------------ option translation
NoOptions == [general |-> 0, parse |-> 0, heuristic |-> 0]

apply_legacy_flags(opts, options_mask) ==
    LET o1 == IF BitAnd(options_mask, 1) # 0
              THEN [opts EXCEPT !.parse = BitOr(@, CL_SCAN_PARSE_ARCHIVE)] ELSE opts
        o2 == IF BitAnd(options_mask, 2) # 0
              THEN [o1 EXCEPT !.parse = BitOr(@, CL_SCAN_PARSE_MAIL)] ELSE o1
        o3 == IF BitAnd(options_mask, 4) # 0
              THEN [o2 EXCEPT !.parse = BitOr(@, CL_SCAN_PARSE_OLE2)] ELSE o2
        o4 == IF BitAnd(options_mask, 8) # 0
              THEN [o3 EXCEPT !.heuristic = BitOr(@, CL_SCAN_HEURISTIC_BROKEN)] ELSE o3
    IN o4

\* The general flags init_scan_options lets through.
GeneralFlags ==
    BitOr(CL_SCAN_GENERAL_ALLMATCHES,
    BitOr(CL_SCAN_GENERAL_COLLECT_METADATA,
    BitOr(CL_SCAN_GENERAL_HEURISTICS,
    BitOr(CL_SCAN_GENERAL_HEURISTIC_PRECEDENCE,
          CL_SCAN_GENERAL_UNPRIVILEGED))))

\* Mutant: the mask is stored as the general flags without the & of known flags.
init_scan_options_unmasked(options_mask) ==
    apply_legacy_flags([NoOptions EXCEPT !.general = options_mask], options_mask)

init_scan_options(options_mask) ==
    LET general_bits == BitAnd(options_mask, GeneralFlags)
    IN apply_legacy_flags([NoOptions EXCEPT !.general = general_bits], options_mask)

\* ------------------------------------------------------------ NIF arguments
\* A path argument: a binary, a character list, or some other term, of a length.
PathLens == {PathBufSize - 1, PathBufSize}
PathTerms == [kind : {"binary", "list"}, len : PathLens] \cup {[kind |-> "other", len |-> 0]}

\* No path argument (the NIF takes none).
NoPath == [kind |-> "none", len |-> 0]

\* Mutant: a string that does not fit is cut to the buffer, not refused.
get_c_string_truncating(term, buffer_size) ==
    IF buffer_size = 0 \/ term.kind \notin {"binary", "list"} THEN [ok |-> 0, len |-> 0]
    ELSE IF term.len >= buffer_size THEN [ok |-> 1, len |-> buffer_size - 1]
    ELSE [ok |-> 1, len |-> term.len]

\* get_c_string: 1 and the bytes copied (without the NUL), or 0.
get_c_string(term, buffer_size) ==
    IF buffer_size = 0 THEN [ok |-> 0, len |-> 0]
    ELSE IF term.kind = "binary"
         THEN IF term.len >= buffer_size THEN [ok |-> 0, len |-> 0]
              ELSE [ok |-> 1, len |-> term.len]
    ELSE LET chars_written ==
                 \* enif_get_string: bytes written with the NUL, -size when
                 \* truncated, 0 when the term is no string
                 IF term.kind # "list" THEN 0
                 ELSE IF term.len + 1 <= buffer_size THEN term.len + 1
                 ELSE 0 - buffer_size
         IN IF chars_written > 0 THEN [ok |-> 1, len |-> chars_written - 1]
            ELSE [ok |-> 0, len |-> 0]

\* The optional third argument of scan_file/3 and scan_buffer/3.
OptionArgs ==
    {[argc |-> 2, isUint |-> TRUE, mask |-> 0], [argc |-> 3, isUint |-> FALSE, mask |-> 0]}
        \cup {[argc |-> 3, isUint |-> TRUE, mask |-> m] : m \in SampleMasks}

\* The bytes argument of scan_buffer: a binary or not.
BufferTerms == {"binary", "other"}

\* virus_name as the native scan leaves it: <<>> is the NULL pointer.
VirusNames == {<<>>, <<"Eicar-Signature">>}

\* What a native scan answers: a return code, and a name when it is CL_VIRUS
\* (or none even then).
ScanAnswers ==
    {[ret |-> r, name |-> <<>>] : r \in ScanCodes}
        \cup {[ret |-> CL_VIRUS, name |-> n] : n \in VirusNames}

\* -------------------------------------------------------------------- state
VARIABLES
    handles,    \* engine_handle of each resource: engine pointer, initialized flag
    resource,   \* each resource: "none" (not allocated), "live", "collected"
    owner,      \* the native engine engine_new stored in each resource
    native,     \* each native engine: allocation state and what was done to it
    openMaps,   \* in-memory maps opened by cl_fmap_open_memory and not yet closed
    last,       \* the last NIF call: entry state, native calls made, term returned
    callers     \* the NIF calls in progress on scheduler threads, one per caller

vars == <<handles, resource, owner, native, openMaps, last, callers>>

\* The fields of engine_handle.
engine_handle(engine, initialized) == [engine |-> engine, initialized |-> initialized]

\* What one run of a NIF did: the handle fields it leaves, the term it returns, the
\* native calls it made in order, the engine pointer and arguments it passed them
\* and what they answered.
Outcome(hd) ==
    [handle |-> hd, ret |-> BadArg, calls |-> <<>>, eng |-> NULL, pathLen |-> -1,
     mask |-> 0, opts |-> NoOptions, nret |-> "none", nname |-> <<>>,
     opened |-> 0, closed |-> 0, added |-> 0, arg |-> NoPath]

Called(out, fn) == \E i \in 1..Len(out.calls) : out.calls[i] = fn

\* ----------------------------------------------------------------- the NIFs
\* Mutant: the finalizer releases only an engine that was loaded.
engine_destructor_only_initialized(hd) ==
    IF hd.engine # NULL /\ hd.initialized = 1
    THEN [Outcome(hd) EXCEPT !.calls = <<"cl_engine_free">>, !.eng = hd.engine,
                             !.handle = engine_handle(NULL, 0), !.ret = OkAtom]
    ELSE [Outcome(hd) EXCEPT !.ret = OkAtom]

\* engine_destructor: the resource type's finalizer.
engine_destructor(hd) ==
    IF hd.engine # NULL
    THEN [Outcome(hd) EXCEPT !.calls = <<"cl_engine_free">>, !.eng = hd.engine,
                             !.handle = engine_handle(NULL, 0), !.ret = OkAtom]
    ELSE [Outcome(hd) EXCEPT !.ret = OkAtom]

\* Mutant: the engine is not released when enif_alloc_resource fails.
engine_new_nif_leaks(engine, handle) ==
    LET none == Outcome(engine_handle(NULL, 0)) IN
    IF engine = NULL
    THEN [none EXCEPT !.calls = <<"cl_engine_new">>,
                      !.ret = make_error("Failed to create engine")]
    ELSE IF handle = NULL
    THEN [none EXCEPT !.calls = <<"cl_engine_new">>, !.eng = engine,
                      !.ret = make_error("Failed to allocate resource")]
    ELSE [none EXCEPT !.calls = <<"cl_engine_new">>, !.eng = engine,
                      !.handle = engine_handle(engine, 0), !.ret = OkResource(handle)]

\* engine_new_nif: engine is what cl_engine_new returned, handle what
\* enif_alloc_resource returned (NULL when it failed).
engine_new_nif(engine, handle) ==
    LET none == Outcome(engine_handle(NULL, 0)) IN
    IF engine = NULL
    THEN [none EXCEPT !.calls = <<"cl_engine_new">>,
                      !.ret = make_error("Failed to create engine")]
    ELSE IF handle = NULL
    THEN [none EXCEPT !.calls = <<"cl_engine_new", "cl_engine_free">>, !.eng = engine,
                      !.ret = make_error("Failed to allocate resource")]
    ELSE [none EXCEPT !.calls = <<"cl_engine_new">>, !.eng = engine,
                      !.handle = engine_handle(engine, 0), !.ret = OkResource(handle)]

\* Mutant: the engine is released but handle->engine is not set to NULL.
engine_free_nif_keeps_pointer(hd) ==
    LET freed == IF hd.engine # NULL
                 THEN [Outcome(hd) EXCEPT !.calls = <<"cl_engine_free">>, !.eng = hd.engine]
                 ELSE Outcome(hd)
    IN [freed EXCEPT !.handle.initialized = 0, !.ret = OkAtom]

\* Mutant: handle->initialized is not cleared.
engine_free_nif_keeps_flag(hd) ==
    IF hd.engine # NULL
    THEN [Outcome(hd) EXCEPT !.calls = <<"cl_engine_free">>, !.eng = hd.engine,
                             !.handle.engine = NULL, !.ret = OkAtom]
    ELSE [Outcome(hd) EXCEPT !.ret = OkAtom]

\* engine_free_nif, after enif_get_resource.
engine_free_nif(hd) ==
    LET freed == IF hd.engine # NULL
                 THEN [Outcome(hd) EXCEPT !.calls = <<"cl_engine_free">>, !.eng = hd.engine,
                                          !.handle.engine = NULL]
                 ELSE Outcome(hd)
    IN [freed EXCEPT !.handle.initialized = 0, !.ret = OkAtom]

\* Mutant: handle->initialized is set before cl_load's return code is looked at.
load_database_nif_marks_on_failure(hd, path, nat) ==
    IF hd.engine = NULL
    THEN [Outcome(hd) EXCEPT !.ret = make_error(ENGINE_INVALID_ERROR)]
    ELSE LET database_path == get_c_string(path, PathBufSize) IN
         IF database_path.ok = 0
         THEN [Outcome(hd) EXCEPT !.ret = BadArg]
         ELSE LET signatures == 0 + nat.n
                  called == [Outcome(hd) EXCEPT !.calls = <<"cl_load">>, !.eng = hd.engine,
                                                !.pathLen = database_path.len,
                                                !.nret = nat.ret, !.added = nat.n,
                                                !.handle.initialized = 1]
              IN IF nat.ret # CL_SUCCESS
                 THEN [called EXCEPT !.ret = make_clamav_error(nat.ret)]
                 ELSE [called EXCEPT !.ret = OkCount(signatures)]

\* Mutant: signatures is not zeroed per call but carries the engine's count.
load_database_nif_cumulative(hd, path, nat) ==
    IF hd.engine = NULL
    THEN [Outcome(hd) EXCEPT !.ret = make_error(ENGINE_INVALID_ERROR)]
    ELSE LET database_path == get_c_string(path, PathBufSize) IN
         IF database_path.ok = 0
         THEN [Outcome(hd) EXCEPT !.ret = BadArg]
         ELSE LET signatures == native[hd.engine].sigs + nat.n
                  called == [Outcome(hd) EXCEPT !.calls = <<"cl_load">>, !.eng = hd.engine,
                                                !.pathLen = database_path.len,
                                                !.nret = nat.ret, !.added = nat.n]
              IN IF nat.ret # CL_SUCCESS
                 THEN [called EXCEPT !.ret = make_clamav_error(nat.ret)]
                 ELSE [called EXCEPT !.handle.initialized = 1, !.ret = OkCount(signatures)]

\* load_database_nif, after enif_get_resource.  nat is what cl_load answers:
\* its return code and the number of signatures it adds to *signo.
load_database_nif(hd, path, nat) ==
    IF hd.engine = NULL
    THEN [Outcome(hd) EXCEPT !.ret = make_error(ENGINE_INVALID_ERROR)]
    ELSE LET database_path == get_c_string(path, PathBufSize) IN
         IF database_path.ok = 0
         THEN [Outcome(hd) EXCEPT !.ret = BadArg]
         ELSE LET signatures == 0 + nat.n
                  called == [Outcome(hd) EXCEPT !.calls = <<"cl_load">>, !.eng = hd.engine,
                                                !.pathLen = database_path.len,
                                                !.nret = nat.ret, !.added = nat.n]
              IN IF nat.ret # CL_SUCCESS
                 THEN [called EXCEPT !.ret = make_clamav_error(nat.ret)]
                 ELSE [called EXCEPT !.handle.initialized = 1, !.ret = OkCount(signatures)]

\* Mutant: a failed cl_engine_compile clears handle->initialized.
compile_engine_nif_resets_on_failure(hd, nat) ==
    IF hd.engine = NULL
    THEN [Outcome(hd) EXCEPT !.ret = make_error(ENGINE_INVALID_ERROR)]
    ELSE IF hd.initialized = 0
    THEN [Outcome(hd) EXCEPT !.ret = make_error(ENGINE_NOT_INITIALIZED_ERROR)]
    ELSE LET called == [Outcome(hd) EXCEPT !.calls = <<"cl_engine_compile">>,
                                           !.eng = hd.engine, !.nret = nat.ret]
         IN IF nat.ret # CL_SUCCESS
            THEN [called EXCEPT !.handle.initialized = 0, !.ret = make_clamav_error(nat.ret)]
            ELSE [called EXCEPT !.ret = OkAtom]

\* compile_engine_nif, after enif_get_resource.  nat is cl_engine_compile's code.
compile_engine_nif(hd, nat) ==
    IF hd.engine = NULL
    THEN [Outcome(hd) EXCEPT !.ret = make_error(ENGINE_INVALID_ERROR)]
    ELSE IF hd.initialized = 0
    THEN [Outcome(hd) EXCEPT !.ret = make_error(ENGINE_NOT_INITIALIZED_ERROR)]
    ELSE LET called == [Outcome(hd) EXCEPT !.calls = <<"cl_engine_compile">>,
                                           !.eng = hd.engine, !.nret = nat.ret]
         IN IF nat.ret # CL_SUCCESS
            THEN [called EXCEPT !.ret = make_clamav_error(nat.ret)]
            ELSE [called EXCEPT !.ret = OkAtom]

\* Mutant: only CL_CLEAN is a success; a detection falls to the default case.
scan_result_virus_as_error(ret, virus_name) ==
    CASE ret = CL_CLEAN -> OkClean
      [] OTHER -> make_clamav_error(ret)

\* switch (ret) of scan_file_nif and scan_buffer_nif; virus_name is <<>> for NULL.
scan_result(ret, virus_name) ==
    CASE ret = CL_CLEAN -> OkClean
      [] ret = CL_VIRUS -> OkVirus(IF virus_name # <<>> THEN virus_name[1] ELSE "")
      [] OTHER -> make_clamav_error(ret)

\* Mutant: the initialized check comes before the NULL check.
scan_file_nif_state_first(hd, path, optarg, nat) ==
    IF hd.initialized = 0
    THEN [Outcome(hd) EXCEPT !.ret = make_error(ENGINE_NOT_INITIALIZED_ERROR)]
    ELSE IF hd.engine = NULL
    THEN [Outcome(hd) EXCEPT !.ret = make_error(ENGINE_INVALID_ERROR)]
    ELSE LET file_path == get_c_string(path, PathBufSize) IN
         IF file_path.ok = 0
         THEN [Outcome(hd) EXCEPT !.ret = BadArg]
         ELSE IF optarg.argc > 2 /\ ~optarg.isUint
         THEN [Outcome(hd) EXCEPT !.ret = BadArg]
         ELSE LET options_mask == IF optarg.argc > 2 THEN optarg.mask ELSE 0 IN
              [Outcome(hd) EXCEPT !.calls = <<"cl_scanfile">>, !.eng = hd.engine,
                                  !.pathLen = file_path.len, !.mask = options_mask,
                                  !.opts = init_scan_options(options_mask),
                                  !.nret = nat.ret, !.nname = nat.name,
                                  !.ret = scan_result(nat.ret, nat.name)]

\* scan_file_nif, after enif_get_resource.  nat is what cl_scanfile answers: its
\* return code and the virus name pointer it leaves.
scan_file_nif(hd, path, optarg, nat) ==
    IF hd.engine = NULL
    THEN [Outcome(hd) EXCEPT !.ret = make_error(ENGINE_INVALID_ERROR)]
    ELSE IF hd.initialized = 0
    THEN [Outcome(hd) EXCEPT !.ret = make_error(ENGINE_NOT_INITIALIZED_ERROR)]
    ELSE LET file_path == get_c_string(path, PathBufSize) IN
         IF file_path.ok = 0
         THEN [Outcome(hd) EXCEPT !.ret = BadArg]
         ELSE IF optarg.argc > 2 /\ ~optarg.isUint
         THEN [Outcome(hd) EXCEPT !.ret = BadArg]
         ELSE LET options_mask == IF optarg.argc > 2 THEN optarg.mask ELSE 0 IN
              [Outcome(hd) EXCEPT !.calls = <<"cl_scanfile">>, !.eng = hd.engine,
                                  !.pathLen = file_path.len, !.mask = options_mask,
                                  !.opts = init_scan_options(options_mask),
                                  !.nret = nat.ret, !.nname = nat.name,
                                  !.ret = scan_result(nat.ret, nat.name)]

\* Mutant: no initialized check.
scan_buffer_nif_unchecked(hd, buffer, optarg, nat) ==
    IF hd.engine = NULL
    THEN [Outcome(hd) EXCEPT !.ret = make_error(ENGINE_INVALID_ERROR)]
    ELSE IF buffer # "binary"
    THEN [Outcome(hd) EXCEPT !.ret = BadArg]
    ELSE IF optarg.argc > 2 /\ ~optarg.isUint
    THEN [Outcome(hd) EXCEPT !.ret = BadArg]
    ELSE LET options_mask == IF optarg.argc > 2 THEN optarg.mask ELSE 0
             translated == [Outcome(hd) EXCEPT !.mask = options_mask,
                                               !.opts = init_scan_options(options_mask)]
         IN IF ~nat.mapOk
            THEN [translated EXCEPT !.calls = <<"cl_fmap_open_memory">>,
                                    !.ret = make_error("Failed to create fmap")]
            ELSE [translated EXCEPT
                      !.calls = <<"cl_fmap_open_memory", "cl_scanmap_callback", "cl_fmap_close">>,
                      !.eng = hd.engine, !.opened = 1, !.closed = 1,
                      !.nret = nat.ret, !.nname = nat.name,
                      !.ret = scan_result(nat.ret, nat.name)]

\* Mutant: the map is closed on the two success cases only.
scan_buffer_nif_leaks_on_error(hd, buffer, optarg, nat) ==
    IF hd.engine = NULL
    THEN [Outcome(hd) EXCEPT !.ret = make_error(ENGINE_INVALID_ERROR)]
    ELSE IF hd.initialized = 0
    THEN [Outcome(hd) EXCEPT !.ret = make_error(ENGINE_NOT_INITIALIZED_ERROR)]
    ELSE IF buffer # "binary"
    THEN [Outcome(hd) EXCEPT !.ret = BadArg]
    ELSE IF optarg.argc > 2 /\ ~optarg.isUint
    THEN [Outcome(hd) EXCEPT !.ret = BadArg]
    ELSE LET options_mask == IF optarg.argc > 2 THEN optarg.mask ELSE 0
             translated == [Outcome(hd) EXCEPT !.mask = options_mask,
                                               !.opts = init_scan_options(options_mask)]
             closes == nat.ret \in {CL_CLEAN, CL_VIRUS}
         IN IF ~nat.mapOk
            THEN [translated EXCEPT !.calls = <<"cl_fmap_open_memory">>,
                                    !.ret = make_error("Failed to create fmap")]
            ELSE [translated EXCEPT
                      !.calls = IF closes
                                THEN <<"cl_fmap_open_memory", "cl_scanmap_callback", "cl_fmap_close">>
                                ELSE <<"cl_fmap_open_memory", "cl_scanmap_callback">>,
                      !.eng = hd.engine, !.opened = 1, !.closed = IF closes THEN 1 ELSE 0,
                      !.nret = nat.ret, !.nname = nat.name,
                      !.ret = scan_result(nat.ret, nat.name)]

\* scan_buffer_nif, after enif_get_resource.  nat is whether cl_fmap_open_memory
\* gave a map, and what cl_scanmap_callback answers.
scan_buffer_nif(hd, buffer, optarg, nat) ==
    IF hd.engine = NULL
    THEN [Outcome(hd) EXCEPT !.ret = make_error(ENGINE_INVALID_ERROR)]
    ELSE IF hd.initialized = 0
    THEN [Outcome(hd) EXCEPT !.ret = make_error(ENGINE_NOT_INITIALIZED_ERROR)]
    ELSE IF buffer # "binary"
    THEN [Outcome(hd) EXCEPT !.ret = BadArg]
    ELSE IF optarg.argc > 2 /\ ~optarg.isUint
    THEN [Outcome(hd) EXCEPT !.ret = BadArg]
    ELSE LET options_mask == IF optarg.argc > 2 THEN optarg.mask ELSE 0
             translated == [Outcome(hd) EXCEPT !.mask = options_mask,
                                               !.opts = init_scan_options(options_mask)]
         IN IF ~nat.mapOk
            THEN [translated EXCEPT !.calls = <<"cl_fmap_open_memory">>,
                                    !.ret = make_error("Failed to create fmap")]
            ELSE [translated EXCEPT
                      !.calls = <<"cl_fmap_open_memory", "cl_scanmap_callback", "cl_fmap_close">>,
                      !.eng = hd.engine, !.opened = 1, !.closed = 1,
                      !.nret = nat.ret, !.nname = nat.name,
                      !.ret = scan_result(nat.ret, nat.name)]

\* Mutant: the query is refused on a handle that is not initialized.
get_database_version_nif_needs_init(hd, nat) ==
    IF hd.engine = NULL
    THEN [Outcome(hd) EXCEPT !.ret = make_error(ENGINE_INVALID_ERROR)]
    ELSE IF hd.initialized = 0
    THEN [Outcome(hd) EXCEPT !.ret = make_error(ENGINE_NOT_INITIALIZED_ERROR)]
    ELSE LET called == [Outcome(hd) EXCEPT !.calls = <<"cl_engine_get_num">>,
                                           !.eng = hd.engine, !.nret = nat.err]
         IN IF nat.err # CL_SUCCESS
            THEN [called EXCEPT !.ret = make_clamav_error(nat.err)]
            ELSE [called EXCEPT !.ret = ULong(nat.version)]

\* get_database_version_nif, after enif_get_resource.  nat is what
\* cl_engine_get_num answers: the error it stores and the number it returns.
get_database_version_nif(hd, nat) ==
    IF hd.engine = NULL
    THEN [Outcome(hd) EXCEPT !.ret = make_error(ENGINE_INVALID_ERROR)]
    ELSE LET called == [Outcome(hd) EXCEPT !.calls = <<"cl_engine_get_num">>,
                                           !.eng = hd.engine, !.nret = nat.err]
         IN IF nat.err # CL_SUCCESS
            THEN [called EXCEPT !.ret = make_clamav_error(nat.err)]
            ELSE [called EXCEPT !.ret = ULong(nat.version)]

\* ------------------------------------------------------------ the machine
NativeEngine(st, frees, sigs, loaded, compiled) ==
    [st |-> st, frees |-> frees, sigs |-> sigs, loaded |-> loaded, compiled |-> compiled]

\* The record kept of a call.
LastCall(op, h, pre, out) ==
    [op |-> op, h |-> h, pre |-> pre, ret |-> out.ret, calls |-> out.calls,
     eng |-> out.eng, pathLen |-> out.pathLen, mask |-> out.mask, opts |-> out.opts,
     nret |-> out.nret, nname |-> out.nname, opened |-> out.opened,
     closed |-> out.closed, added |-> out.added, arg |-> out.arg]

\* The processes that hold the resource term and call NIFs at the same time.
Callers == 1..MaxCallers

\* A caller that has made no call: no argument given, nothing read, nothing stored.
Idle ==
    [pc |-> "idle", op |-> "none", path |-> NoPath, buffer |-> "other",
     optarg |-> [argc |-> 2, isUint |-> TRUE, mask |-> 0],
     engine |-> NULL, initialized |-> 0, ptr |-> NULL, stale |-> FALSE,
     nat |-> [mapOk |-> FALSE, ret |-> CL_SUCCESS, name |-> <<>>, n |-> 0, version |-> 0],
     ret |-> BadArg, stores |-> <<>>]

Init ==
    /\ callers = [c \in Callers |-> Idle]
    /\ handles = [h \in Handles |-> engine_handle(NULL, 0)]
    /\ resource = [h \in Handles |-> "none"]
    /\ owner = [h \in Handles |-> NULL]
    /\ native = [e \in Engines |-> NativeEngine("unused", 0, 0, FALSE, FALSE)]
    /\ openMaps = 0
    /\ last = LastCall("none", NotAResource, engine_handle(NULL, 0),
                       Outcome(engine_handle(NULL, 0)))

\* What the native calls of a run do to the engine they were given.
NativeAfter(out) ==
    [e \in Engines |->
        IF e # out.eng THEN native[e]
        ELSE IF Called(out, "cl_engine_free")
        THEN NativeEngine("released", native[e].frees + 1, 0, FALSE, FALSE)
        ELSE IF Called(out, "cl_engine_new")
        THEN [native[e] EXCEPT !.st = "live"]
        ELSE IF Called(out, "cl_load") /\ out.nret = CL_SUCCESS
        THEN [native[e] EXCEPT !.loaded = TRUE, !.sigs = @ + out.added]
        ELSE IF Called(out, "cl_engine_compile") /\ out.nret = CL_SUCCESS
        THEN [native[e] EXCEPT !.compiled = TRUE]
        ELSE native[e]]

\* A NIF called with a live resource h ran with outcome out.
Ran(op, h, out) ==
    /\ handles' = [handles EXCEPT ![h] = out.handle]
    /\ native' = NativeAfter(out)
    /\ openMaps' = openMaps + out.opened - out.closed
    /\ last' = LastCall(op, h, handles[h], out)
    /\ UNCHANGED <<resource, owner, callers>>

\* A NIF called with a first argument that is no engine resource: badarg.
NotResource(op) ==
    /\ last' = LastCall(op, NotAResource, engine_handle(NULL, 0),
                        Outcome(engine_handle(NULL, 0)))
    /\ UNCHANGED <<handles, resource, owner, native, openMaps, callers>>

Live == {h \in Handles : resource[h] = "live"}

Min(a, b) == IF a <= b THEN a ELSE b

\* The native layer answers only when it is called: the answers to try for a run
\* that, probed with the answer silent, made no native call are silent alone.
Answers(probe, silent, all) == IF probe.calls = <<>> THEN {silent} ELSE all

\* engine_new/0.  cl_engine_new answers NULL or the next engine; the resource
\* allocation fails or gives the next resource.
Call_engine_new ==
    \E h \in Handles, engOk \in BOOLEAN, resOk \in BOOLEAN :
        /\ resource[h] = "none"
        /\ \A g \in Handles : g < h => resource[g] # "none"
        /\ LET unused == {e \in Engines : native[e].st = "unused"}
               engine == IF engOk /\ unused # {}
                         THEN CHOOSE e \in unused : \A f \in unused : e <= f
                         ELSE NULL
           IN \E out \in {engine_new_nif(engine, IF resOk THEN h ELSE NULL)} :
              LET made == out.ret.tag = "ok" IN
              /\ handles' = IF made THEN [handles EXCEPT ![h] = out.handle] ELSE handles
              /\ resource' = IF made THEN [resource EXCEPT ![h] = "live"] ELSE resource
              /\ owner' = IF made THEN [owner EXCEPT ![h] = engine] ELSE owner
              /\ native' = NativeAfter(out)
              /\ last' = LastCall("engine_new", IF made THEN h ELSE NotAResource,
                                  engine_handle(NULL, 0), out)
              /\ UNCHANGED <<openMaps, callers>>

\* The garbage collector reclaims a resource: the finalizer runs, and no term
\* refers to the resource any more.
Call_engine_destructor ==
    \E h \in Live :
        \E out \in {engine_destructor(handles[h])} :
        /\ handles' = [handles EXCEPT ![h] = out.handle]
        /\ resource' = [resource EXCEPT ![h] = "collected"]
        /\ native' = NativeAfter(out)
        /\ last' = LastCall("engine_destructor", h, handles[h], out)
        /\ UNCHANGED <<owner, openMaps, callers>>

Call_engine_free ==
    \/ \E h \in Live :
           \E out \in {engine_free_nif(handles[h])} : Ran("engine_free", h, out)
    \/ NotResource("engine_free")

Call_load_database ==
    \/ \E h \in Live, path \in PathTerms :
           LET silent == [ret |-> CL_SUCCESS, n |-> 0]
               room == IF handles[h].engine = NULL THEN 0
                       ELSE MaxTotalSigs - native[handles[h].engine].sigs
           IN \E nat \in Answers(load_database_nif(handles[h], path, silent), silent,
                                 [ret : CallCodes, n : 0..Min(MaxSigs, room)]) :
                  \E out \in {[load_database_nif(handles[h], path, nat) EXCEPT !.arg = path]} :
                      Ran("load_database", h, out)
    \/ NotResource("load_database")

Call_compile_engine ==
    \/ \E h \in Live :
           LET silent == [ret |-> CL_SUCCESS] IN
           \E nat \in Answers(compile_engine_nif(handles[h], silent), silent,
                              [ret : CallCodes]) :
               \E out \in {compile_engine_nif(handles[h], nat)} :
                   Ran("compile_engine", h, out)
    \/ NotResource("compile_engine")

Call_scan_file ==
    \/ \E h \in Live, path \in PathTerms, optarg \in OptionArgs :
           LET silent == [ret |-> CL_CLEAN, name |-> <<>>] IN
           \E nat \in Answers(scan_file_nif(handles[h], path, optarg, silent), silent,
                              ScanAnswers) :
               \E out \in {[scan_file_nif(handles[h], path, optarg, nat) EXCEPT !.arg = path]} :
                   Ran("scan_file", h, out)
    \/ NotResource("scan_file")

Call_scan_buffer ==
    \/ \E h \in Live, buffer \in BufferTerms, optarg \in OptionArgs :
           LET silent == [mapOk |-> FALSE, ret |-> CL_CLEAN, name |-> <<>>] IN
           \E nat \in Answers(scan_buffer_nif(handles[h], buffer, optarg, silent), silent,
                              {silent} \cup {[mapOk |-> TRUE, ret |-> a.ret, name |-> a.name] :
                                             a \in ScanAnswers}) :
               \E out \in {scan_buffer_nif(handles[h], buffer, optarg, nat)} :
                   Ran("scan_buffer", h, out)
    \/ NotResource("scan_buffer")

Call_get_database_version ==
    \/ \E h \in Live :
           LET silent == [err |-> CL_SUCCESS, version |-> 0] IN
           \E nat \in Answers(get_database_version_nif(handles[h], silent), silent,
                              [err : CallCodes, version : 0..1]) :
               \E out \in {get_database_version_nif(handles[h], nat)} :
                   Ran("get_database_version", h, out)
    \/ NotResource("get_database_version")

Next ==
    \/ Call_engine_new
    \/ Call_engine_destructor
    \/ Call_engine_free
    \/ Call_load_database
    \/ Call_compile_engine
    \/ Call_scan_file
    \/ Call_scan_buffer
    \/ Call_get_database_version

Spec == Init /\ [][Next]_vars

\* ------------------------------------------- the option translation alone
\* init_scan_options is a function of the mask only: it is applied to every
\* mask of MaskBits bits.  last.mask holds the mask drawn, last.opts the result.
InitOptions ==
    /\ callers = [c \in Callers |-> Idle]
    /\ handles = [h \in Handles |-> engine_handle(NULL, 0)]
    /\ resource = [h \in Handles |-> "none"]
    /\ owner = [h \in Handles |-> NULL]
    /\ native = [e \in Engines |-> NativeEngine("unused", 0, 0, FALSE, FALSE)]
    /\ openMaps = 0
    /\ \E m \in Masks :
           last = [LastCall("none", NotAResource, engine_handle(NULL, 0),
                            Outcome(engine_handle(NULL, 0))) EXCEPT !.mask = m]

Translate ==
    /\ last.op = "none"
    /\ last' = [last EXCEPT !.op = "init_scan_options", !.opts = init_scan_options(last.mask)]
    /\ UNCHANGED <<handles, resource, owner, native, openMaps, callers>>

SpecOptions == InitOptions /\ [][Translate]_vars

\* ------------------------------------------------ calls that overlap in time
\* The wrapper takes no lock: NIFs called by different processes with the same
\* resource run on different scheduler threads, and each load and store of the
\* handle's fields, and each native call, is a step of its own.  Every caller
\* makes one call on the resource Shared.  A caller's record holds its
\* arguments, what it read from the handle (engine, initialized), the pointer it
\* passed to the native layer (ptr), whether that pointer was NULL or released
\* at the call (stale), the native answer, the term it returns and the stores to
\* the handle it still has to make.
Shared == 1

\* The native functions that are passed handle->engine.
EngineCalls ==
    {"cl_engine_free", "cl_load", "cl_engine_compile", "cl_scanfile",
     "cl_scanmap_callback", "cl_engine_get_num"}

\* The NIFs that test handle->initialized after handle->engine.
ReadsInit(op) == op \in {"compile_engine", "scan_file", "scan_buffer"}

\* The path arguments tried by overlapping calls.
RacePaths == {[kind |-> "binary", len |-> PathBufSize - 1],
              [kind |-> "binary", len |-> PathBufSize]}

\* What the native layer can answer to the calls of op.
NatAnswers(op) ==
    CASE op \in {"scan_file", "scan_buffer"} ->
             {[mapOk |-> op = "scan_buffer", ret |-> a.ret, name |-> a.name, n |-> 0,
               version |-> 0] : a \in ScanAnswers}
                 \cup (IF op = "scan_buffer" THEN {Idle.nat} ELSE {})
      [] op = "load_database" ->
             {[Idle.nat EXCEPT !.ret = r, !.n = k] : r \in CallCodes, k \in 0..MaxSigs}
      [] op = "get_database_version" ->
             {[Idle.nat EXCEPT !.ret = r, !.version = v] : r \in CallCodes, v \in 0..1}
      [] op = "compile_engine" -> {[Idle.nat EXCEPT !.ret = r] : r \in CallCodes}
      [] OTHER -> {Idle.nat}

\* The NIF of caller record c, run on the handle fields hd with the native
\* answer nat.
Nif(c, hd, nat) ==
    CASE c.op = "engine_free" -> engine_free_nif(hd)
      [] c.op = "load_database" ->
             load_database_nif(hd, c.path, [ret |-> nat.ret, n |-> nat.n])
      [] c.op = "compile_engine" -> compile_engine_nif(hd, [ret |-> nat.ret])
      [] c.op = "scan_file" ->
             scan_file_nif(hd, c.path, c.optarg, [ret |-> nat.ret, name |-> nat.name])
      [] c.op = "scan_buffer" ->
             scan_buffer_nif(hd, c.buffer, c.optarg,
                             [mapOk |-> nat.mapOk, ret |-> nat.ret, name |-> nat.name])
      [] c.op = "get_database_version" ->
             get_database_version_nif(hd, [err |-> nat.ret, version |-> nat.version])

\* Mutant: a scan that fails in the native layer clears handle->initialized.
Stores_scan_clears_flag(op, out) ==
    CASE op = "engine_free" ->
             (IF Called(out, "cl_engine_free")
              THEN <<[field |-> "engine", value |-> NULL]>> ELSE <<>>)
                 \o <<[field |-> "initialized", value |-> 0]>>
      [] op = "load_database" ->
             IF Called(out, "cl_load") /\ out.nret = CL_SUCCESS
             THEN <<[field |-> "initialized", value |-> 1]>> ELSE <<>>
      [] op \in {"scan_file", "scan_buffer"} ->
             IF out.nret \in NativeErrors
             THEN <<[field |-> "initialized", value |-> 0]>> ELSE <<>>
      [] OTHER -> <<>>

\* The stores to the handle's fields a NIF makes after its checks and its
\* native call, in program order: engine_free_nif stores NULL to engine when it
\* released it and then 0 to initialized; load_database_nif stores 1 to
\* initialized after a successful cl_load; the other NIFs store nothing.
Stores(op, out) ==
    CASE op = "engine_free" ->
             (IF Called(out, "cl_engine_free")
              THEN <<[field |-> "engine", value |-> NULL]>> ELSE <<>>)
                 \o <<[field |-> "initialized", value |-> 0]>>
      [] op = "load_database" ->
             IF Called(out, "cl_load") /\ out.nret = CL_SUCCESS
             THEN <<[field |-> "initialized", value |-> 1]>> ELSE <<>>
      [] OTHER -> <<>>

\* Caller record c has read what its checks need: either they (and the argument
\* conversions, which touch nothing shared) end the call here, or the native
\* call is next.
Decide(c) ==
    LET probe == Nif(c, engine_handle(c.engine, c.initialized), Idle.nat)
        stores == Stores(c.op, probe)
    IN IF probe.calls # <<>> THEN [c EXCEPT !.pc = "native"]
       ELSE [c EXCEPT !.ret = probe.ret, !.stores = stores,
                      !.pc = IF stores = <<>> THEN "done" ELSE "store"]

\* The resource is in the state a sequence of engine_new, load_database and
\* compile_engine leaves it in, and no caller has called yet.
InitCompiled ==
    /\ callers = [c \in Callers |-> Idle]
    /\ handles = [h \in Handles |-> IF h = Shared THEN engine_handle(1, 1)
                                  ELSE engine_handle(NULL, 0)]
    /\ resource = [h \in Handles |-> IF h = Shared THEN "live" ELSE "none"]
    /\ owner = [h \in Handles |-> IF h = Shared THEN 1 ELSE NULL]
    /\ native = [e \in Engines |-> IF e = 1 THEN NativeEngine("live", 0, 1, TRUE, TRUE)
                                  ELSE NativeEngine("unused", 0, 0, FALSE, FALSE)]
    /\ openMaps = 0
    /\ last = LastCall("none", NotAResource, engine_handle(NULL, 0),
                       Outcome(engine_handle(NULL, 0)))

\* A caller enters a scan NIF; enif_get_resource gives it the handle.
Enter_scan ==
    \E c \in Callers :
        /\ callers[c].pc = "idle"
        /\ \/ \E path \in RacePaths, optarg \in OptionArgs :
                  callers' = [callers EXCEPT ![c] = [@ EXCEPT !.pc = "check_engine",
                                  !.op = "scan_file", !.path = path, !.optarg = optarg]]
           \/ \E buffer \in BufferTerms, optarg \in OptionArgs :
                  callers' = [callers EXCEPT ![c] = [@ EXCEPT !.pc = "check_engine",
                                  !.op = "scan_buffer", !.buffer = buffer, !.optarg = optarg]]
        /\ UNCHANGED <<handles, resource, owner, native, openMaps, last>>

\* A caller enters one of the other NIFs that take the handle.
Enter_lifecycle ==
    \E c \in Callers :
        /\ callers[c].pc = "idle"
        /\ \/ \E op \in {"engine_free", "compile_engine", "get_database_version"} :
                  callers' = [callers EXCEPT ![c] = [@ EXCEPT !.pc = "check_engine",
                                                              !.op = op]]
           \/ \E path \in RacePaths :
                  callers' = [callers EXCEPT ![c] = [@ EXCEPT !.pc = "check_engine",
                                  !.op = "load_database", !.path = path]]
        /\ UNCHANGED <<handles, resource, owner, native, openMaps, last>>

\* The test of handle->engine: one load of the field.
Read_engine ==
    \E c \in Callers :
        /\ callers[c].pc = "check_engine"
        /\ LET seen == [callers[c] EXCEPT !.engine = handles[Shared].engine] IN
           callers' = [callers EXCEPT ![c] =
                          IF seen.engine # NULL /\ ReadsInit(seen.op)
                          THEN [seen EXCEPT !.pc = "check_init"]
                          ELSE Decide(seen)]
        /\ UNCHANGED <<handles, resource, owner, native, openMaps, last>>

\* The test of handle->initialized: one load of the field.
Read_initialized ==
    \E c \in Callers :
        /\ callers[c].pc = "check_init"
        /\ callers' = [callers EXCEPT ![c] =
                          Decide([@ EXCEPT !.initialized = handles[Shared].initialized])]
        /\ UNCHANGED <<handles, resource, owner, native, openMaps, last>>

\* The native call.  Its engine argument is the expression handle->engine again:
\* with no synchronisation the build may pass the value the check loaded or load
\* the field anew.  A call given NULL or a released engine has no defined
\* outcome: it answers anything, or the emulator crashes.
Call_native ==
    \E c \in Callers :
        /\ callers[c].pc = "native"
        /\ \E ptr \in {callers[c].engine, handles[Shared].engine},
              nat \in NatAnswers(callers[c].op), crash \in BOOLEAN :
               \E out \in {[Nif(callers[c], engine_handle(callers[c].engine,
                                                            callers[c].initialized), nat)
                               EXCEPT !.eng = ptr]} :
               LET uses == \E fn \in EngineCalls : Called(out, fn)
                   stale == uses /\ (IF ptr = NULL THEN TRUE ELSE native[ptr].st # "live")
                   stores == Stores(callers[c].op, out)
               IN /\ uses \/ ptr = callers[c].engine
                  /\ crash => stale
                  /\ Called(out, "cl_load") /\ ~stale =>
                         native[ptr].sigs + out.added <= MaxTotalSigs
                  /\ native' = IF ptr # NULL /\ (~stale \/ Called(out, "cl_engine_free"))
                               THEN NativeAfter(out) ELSE native
                  /\ openMaps' = openMaps + out.opened - out.closed
                  /\ callers' = [callers EXCEPT ![c] =
                         [@ EXCEPT !.ptr = IF uses THEN ptr ELSE NULL, !.stale = stale,
                                   !.nat = nat, !.ret = out.ret, !.stores = stores,
                                   !.pc = IF crash THEN "crashed"
                                          ELSE IF stores = <<>> THEN "done" ELSE "store"]]
        /\ UNCHANGED <<handles, resource, owner, last>>

\* One store to a field of the handle.
Store ==
    \E c \in Callers :
        /\ callers[c].pc = "store"
        /\ LET s == Head(callers[c].stores)
               rest == Tail(callers[c].stores)
           IN /\ handles' = [handles EXCEPT ![Shared] = [@ EXCEPT ![s.field] = s.value]]
              /\ callers' = [callers EXCEPT ![c] =
                     [@ EXCEPT !.stores = rest,
                               !.pc = IF rest = <<>> THEN "done" ELSE "store"]]
        /\ UNCHANGED <<resource, owner, native, openMaps, last>>

\* Scans only, on a compiled handle.
NextScans ==
    \/ Enter_scan
    \/ Read_engine
    \/ Read_initialized
    \/ Call_native

SpecScans == InitCompiled /\ [][NextScans]_vars

\* Any calls on the handle, engine_free among them.
NextRace ==
    \/ Enter_scan
    \/ Enter_lifecycle
    \/ Read_engine
    \/ Read_initialized
    \/ Call_native
    \/ Store

SpecRace == InitCompiled /\ [][NextRace]_vars

\* ---------------------------------------------------------------- claims
\* The calls that take a handle and use its engine.
HandleOps ==
    {"load_database", "compile_engine", "scan_file", "scan_buffer", "get_database_version"}
ScanOps == {"scan_file", "scan_buffer"}

\* The last call was op on a resource (enif_get_resource succeeded).
OnHandle(ops) == last.op \in ops /\ last.h # NotAResource

EngineInvalid == make_error(ENGINE_INVALID_ERROR)
EngineNotInitialized == make_error(ENGINE_NOT_INITIALIZED_ERROR)
NativeFailures == {make_error(cl_strerror(c)) : c \in NativeErrors}
NativeScanCalled == Called(last, "cl_scanfile") \/ Called(last, "cl_scanmap_callback")

\* C1: cl_engine_free runs at most once for any engine, however many explicit
\* frees precede the finalizer; a free of a resource always returns ok; a free
\* or a finalizer that finds the pointer NULL makes no native call.
C1_ReleasedAtMostOnce ==
    /\ \A e \in Engines : native[e].frees <= 1
    /\ OnHandle({"engine_free"}) => last.ret = OkAtom
    /\ (OnHandle({"engine_free", "engine_destructor"}) /\ last.pre.engine = NULL)
           => last.calls = <<>>

\* The finalizer ran after an explicit free and released nothing again.
C1_Witness ==
    /\ last.op = "engine_destructor"
    /\ last.pre.engine = NULL
    /\ last.calls = <<>>
    /\ native[owner[last.h]].frees = 1

\* C2: on a freed handle (engine pointer NULL) load_database, compile, scan_file,
\* scan_buffer and database_version return the EngineInvalid error whatever
\* their other arguments, and make no native call.
C2_FreedHandleIsInvalid ==
    (OnHandle(HandleOps) /\ last.pre.engine = NULL)
        => (last.ret = EngineInvalid /\ last.calls = <<>>)

\* scan_file on a freed handle was answered EngineInvalid.
C2_Witness ==
    /\ OnHandle({"scan_file"})
    /\ last.pre.engine = NULL
    /\ last.ret = EngineInvalid

\* C3, as claimed: a scan on a live handle whose engine has not been compiled
\* fails with EngineNotInitialized and makes no native scan.
C3_Original ==
    (OnHandle(ScanOps) /\ last.pre.engine # NULL /\ ~native[last.pre.engine].compiled)
        => (last.ret = EngineNotInitialized /\ ~NativeScanCalled)

\* C3, amended: a scan on a live handle on which no load_database has succeeded
\* fails with EngineNotInitialized and makes no native call; once a load has
\* succeeded a scan is never answered EngineNotInitialized, compiled or not.
C3_ScanBeforeLoadRejected ==
    (OnHandle(ScanOps) /\ last.pre.engine # NULL)
        => IF native[last.pre.engine].loaded
           THEN last.ret # EngineNotInitialized
           ELSE last.ret = EngineNotInitialized /\ last.calls = <<>>

\* scan_buffer on a handle in state New was rejected.
C3_Witness ==
    /\ OnHandle({"scan_buffer"})
    /\ last.pre.engine # NULL
    /\ ~native[last.pre.engine].loaded
    /\ last.ret = EngineNotInitialized

\* C4: compile on a live handle on which no load_database has succeeded fails
\* with EngineNotInitialized and makes no native call; on a live handle on which
\* a load has succeeded it calls the native compile and returns ok or a native
\* failure.
C4_CompileNeedsLoad ==
    (OnHandle({"compile_engine"}) /\ last.pre.engine # NULL)
        => IF native[last.pre.engine].loaded
           THEN /\ last.calls = <<"cl_engine_compile">>
                /\ last.ret \in {OkAtom} \cup NativeFailures
           ELSE last.ret = EngineNotInitialized /\ last.calls = <<>>

\* compile on a loaded handle reported a native failure.
C4_Witness ==
    /\ OnHandle({"compile_engine"})
    /\ last.pre.engine # NULL
    /\ native[last.pre.engine].loaded
    /\ last.ret \in NativeFailures

\* C5: when load_database, compile, scan_file, scan_buffer or database_version
\* returns an error or raises badarg, the handle's engine pointer and
\* initialized flag are what they were on entry.
C5_ErrorsKeepHandle ==
    (OnHandle(HandleOps) /\ (last.ret.tag = "error" \/ last.ret = BadArg))
        => handles[last.h] = last.pre

\* A load on a New handle failed in cl_load and the handle is still New.
C5_Witness ==
    /\ OnHandle({"load_database"})
    /\ last.calls = <<"cl_load">>
    /\ last.ret \in NativeFailures
    /\ last.pre = engine_handle(owner[last.h], 0)
    /\ handles[last.h] = engine_handle(owner[last.h], 0)

\* C6: for every resource, the engine pointer is NULL exactly when the engine
\* made for it has been released, a non-NULL pointer is that engine, and a NULL
\* pointer comes with a cleared initialized flag.
C6_PointerMatchesState ==
    \A h \in Handles :
        resource[h] # "none" =>
            /\ handles[h].engine # NULL <=> native[owner[h]].st = "live"
            /\ handles[h].engine # NULL => handles[h].engine = owner[h]
            /\ handles[h].engine = NULL => handles[h].initialized = 0

\* A loaded handle was freed.
C6_Witness ==
    /\ OnHandle({"engine_free"})
    /\ last.pre.initialized = 1
    /\ handles[last.h] = engine_handle(NULL, 0)

\* C7, as claimed: a successful load leaves the handle initialized and returns
\* the count of signatures the engine holds after it.
C7_Original ==
    (OnHandle({"load_database"}) /\ last.ret.tag = "ok")
        => /\ handles[last.h].initialized = 1
           /\ last.ret = OkCount(native[last.eng].sigs)

\* C7, amended: a successful load leaves the handle initialized and returns the
\* count of signatures that call added.
C7_LoadReturnsCallCount ==
    (OnHandle({"load_database"}) /\ last.ret.tag = "ok")
        => /\ handles[last.h].initialized = 1
           /\ last.ret = OkCount(last.added)

\* A second successful load added signatures to an engine that had some.
C7_Witness ==
    /\ OnHandle({"load_database"})
    /\ last.ret.tag = "ok"
    /\ last.pre.initialized = 1
    /\ last.added >= 1
    /\ native[last.eng].sigs > last.added

\* C8: scan_buffer closes the map it opened exactly once on every exit, and
\* closes none when it opened none: no map stays open after any call.
C8_MapClosedOnEveryPath ==
    /\ openMaps = 0
    /\ OnHandle({"scan_buffer"}) =>
           /\ last.closed = last.opened
           /\ last.opened = 1 <=> Called(last, "cl_scanmap_callback")
           /\ last.opened = 1 <=> Called(last, "cl_fmap_close")

\* scan_buffer's native scan failed and the map was closed.
C8_Witness ==
    /\ OnHandle({"scan_buffer"})
    /\ last.nret \in NativeErrors
    /\ last.opened = 1
    /\ last.closed = 1

\* C9: a scan that reached the native scan returns {ok, clean} for CL_CLEAN,
\* {ok, virus, Name} for CL_VIRUS with Name empty for a NULL name pointer, and
\* {error, cl_strerror(code)} for any other code.
C9_ResultFollowsNativeCode ==
    NativeScanCalled =>
        /\ last.nret = CL_CLEAN => last.ret = Term("tuple2", "ok", "clean", "", 0)
        /\ last.nret = CL_VIRUS =>
               last.ret = Term("tuple3", "ok", "virus",
                               IF last.nname = <<>> THEN "" ELSE last.nname[1], 0)
        /\ last.nret \notin {CL_CLEAN, CL_VIRUS} =>
               last.ret = Term("tuple2", "error", "", cl_strerror(last.nret), 0)

\* A detection with a NULL name pointer was returned as {ok, virus, ""}.
C9_Witness ==
    /\ NativeScanCalled
    /\ last.nret = CL_VIRUS
    /\ last.nname = <<>>
    /\ last.ret = Term("tuple3", "ok", "virus", "", 0)

\* C10, as claimed: a mask of one legacy bit sets exactly one flag: 0x1 only
\* parse-archive, 0x2 only parse-mail, 0x4 only parse-OLE2, 0x8 only
\* heuristic-broken, and nothing in the other flag sets.
C10_Original ==
    last.op = "init_scan_options" =>
        /\ last.mask = 1 =>
               last.opts = [general |-> 0, parse |-> CL_SCAN_PARSE_ARCHIVE, heuristic |-> 0]
        /\ last.mask = 2 =>
               last.opts = [general |-> 0, parse |-> CL_SCAN_PARSE_MAIL, heuristic |-> 0]
        /\ last.mask = 4 =>
               last.opts = [general |-> 0, parse |-> CL_SCAN_PARSE_OLE2, heuristic |-> 0]
        /\ last.mask = 8 =>
               last.opts = [general |-> 0, parse |-> 0, heuristic |-> CL_SCAN_HEURISTIC_BROKEN]

\* The mask bits the translation reads: the general flags and the legacy bits.
KnownBits == BitOr(GeneralFlags, 15)

\* C11: the translation of a mask is the translation of the mask restricted to
\* the known general and legacy bits, so unknown bits change nothing; it sets
\* general flags among the five known ones only; bit 0x1 always gives
\* parse-archive and bit 0x8 always gives heuristic-broken.
C11_UnknownBitsIgnored ==
    last.op = "init_scan_options" =>
        /\ last.opts = init_scan_options(BitAnd(last.mask, KnownBits))
        /\ last.opts.general = BitAnd(last.opts.general, GeneralFlags)
        /\ BitAnd(last.mask, 1) # 0
               => BitAnd(last.opts.parse, CL_SCAN_PARSE_ARCHIVE) = CL_SCAN_PARSE_ARCHIVE
        /\ BitAnd(last.mask, 8) # 0
               => BitAnd(last.opts.heuristic, CL_SCAN_HEURISTIC_BROKEN) = CL_SCAN_HEURISTIC_BROKEN

\* A mask with an unknown bit, bit 0x1 and bit 0x8 was translated.
C11_Witness ==
    /\ last.op = "init_scan_options"
    /\ BitAnd(last.mask, KnownBits) # last.mask
    /\ BitAnd(last.mask, 9) = 9
    /\ last.opts.parse = CL_SCAN_PARSE_ARCHIVE
    /\ last.opts.heuristic = CL_SCAN_HEURISTIC_BROKEN

\* The last call was given a path that is a binary or a character list.
PathGiven == OnHandle({"load_database", "scan_file"}) /\ last.arg.kind \in {"binary", "list"}

\* C12, as claimed: load_database and scan_file on a live handle pass a path of
\* at most 1023 bytes untruncated, and answer a path of 1024 bytes or more with
\* badarg, with no native call and the handle unchanged.
C12_Original ==
    (PathGiven /\ last.pre.engine # NULL) =>
        /\ (Called(last, "cl_load") \/ Called(last, "cl_scanfile")) => last.pathLen = last.arg.len
        /\ last.arg.len >= PathBufSize =>
               (last.ret = BadArg /\ last.calls = <<>> /\ handles[last.h] = last.pre)

\* C12, amended: a path that reaches the native layer is at most 1023 bytes and
\* is passed whole, and load_database passes every such path; a path of 1024
\* bytes or more makes no native call and leaves the handle unchanged, answered
\* with badarg, except that scan_file on a handle not yet loaded answers
\* EngineNotInitialized before it looks at the path.
C12_LongPathRejected ==
    (PathGiven /\ last.pre.engine # NULL) =>
        /\ (Called(last, "cl_load") \/ Called(last, "cl_scanfile"))
               => (last.pathLen = last.arg.len /\ last.arg.len <= PathBufSize - 1)
        /\ (last.op = "load_database" /\ last.arg.len <= PathBufSize - 1)
               => Called(last, "cl_load")
        /\ last.arg.len >= PathBufSize =>
               /\ last.calls = <<>>
               /\ handles[last.h] = last.pre
               /\ last.ret = IF last.op = "scan_file" /\ last.pre.initialized = 0
                             THEN EngineNotInitialized ELSE BadArg

\* scan_file on a loaded handle refused a path of 1024 bytes with badarg.
C12_Witness ==
    /\ OnHandle({"scan_file"})
    /\ last.pre.engine # NULL
    /\ last.pre.initialized = 1
    /\ last.arg.len = PathBufSize
    /\ last.ret = BadArg
    /\ last.calls = <<>>

\* C13: database_version on a live handle, loaded or not, compiled or not, makes
\* the native query with the handle's engine and never answers
\* EngineNotInitialized; on a freed handle it answers EngineInvalid with no
\* native call; it leaves the handle as it was.
C13_VersionNeedsPointerOnly ==
    OnHandle({"get_database_version"}) =>
        /\ handles[last.h] = last.pre
        /\ IF last.pre.engine = NULL
           THEN last.ret = EngineInvalid /\ last.calls = <<>>
           ELSE /\ last.calls = <<"cl_engine_get_num">>
                /\ last.eng = last.pre.engine
                /\ last.ret # EngineNotInitialized
                /\ last.ret.shape = "ulong" \/ last.ret \in NativeFailures

\* database_version on a handle in state New returned a version.
C13_Witness ==
    /\ OnHandle({"get_database_version"})
    /\ last.pre.engine # NULL
    /\ last.pre.initialized = 0
    /\ last.ret.shape = "ulong"

\* C17: once a resource has been reclaimed, the engine engine_new made for it
\* has been released exactly once and its pointer is NULL, whatever calls came
\* before; the finalizer releases the engine when the pointer is not NULL and
\* makes no native call when it is.
C17_ReleasedOnceWhenReclaimed ==
    /\ \A h \in Handles :
           resource[h] = "collected" =>
               /\ native[owner[h]].st = "released"
               /\ native[owner[h]].frees = 1
               /\ handles[h].engine = NULL
    /\ last.op = "engine_destructor" =>
           last.calls = IF last.pre.engine = NULL THEN <<>> ELSE <<"cl_engine_free">>

\* The finalizer released the engine of a loaded handle that was never freed.
C17_Witness ==
    /\ last.op = "engine_destructor"
    /\ last.pre = engine_handle(owner[last.h], 1)
    /\ last.calls = <<"cl_engine_free">>
    /\ resource[last.h] = "collected"
    /\ native[owner[last.h]].frees = 1

\* C18: in every step, a NULL engine pointer of an existing resource stays NULL,
\* and a set initialized flag is cleared by engine_free or the finalizer only.
C18_FreedIsTerminal ==
    [][\A h \in Handles :
           resource[h] # "none" =>
               /\ handles[h].engine = NULL => handles'[h].engine = NULL
               /\ (handles[h].initialized = 1 /\ handles'[h].initialized = 0)
                      => (last'.op \in {"engine_free", "engine_destructor"} /\ last'.h = h)]_vars

\* A load was attempted on a freed handle, which stayed freed.
C18_Witness ==
    /\ OnHandle({"load_database"})
    /\ last.pre.engine = NULL
    /\ handles[last.h].engine = NULL
    /\ native[owner[last.h]].st = "released"

\* C19: engine_new either returns a resource whose handle holds the new, live
\* engine with initialized cleared, on which a compile or a scan called next
\* answers EngineNotInitialized, or returns one of its two errors with no
\* resource made and the engine, if one was created, released; no live engine is
\* ever without a resource.
C19_NewIsAllOrNothing ==
    /\ \A e \in Engines :
           native[e].st = "live" => \E h \in Handles : resource[h] # "none" /\ owner[h] = e
    /\ last.op = "engine_new" =>
           IF last.ret.tag = "ok"
           THEN /\ last.h \in Handles
                /\ last.ret = OkResource(last.h)
                /\ last.eng # NULL
                /\ handles[last.h] = engine_handle(last.eng, 0)
                /\ native[last.eng].st = "live"
                /\ compile_engine_nif(handles[last.h], [ret |-> CL_SUCCESS]).ret
                       = EngineNotInitialized
                /\ \A optarg \in OptionArgs :
                       /\ \A path \in PathTerms :
                              scan_file_nif(handles[last.h], path, optarg,
                                            [ret |-> CL_CLEAN, name |-> <<>>]).ret
                                  = EngineNotInitialized
                       /\ \A buffer \in BufferTerms :
                              scan_buffer_nif(handles[last.h], buffer, optarg,
                                              [mapOk |-> TRUE, ret |-> CL_CLEAN,
                                               name |-> <<>>]).ret
                                  = EngineNotInitialized
           ELSE /\ last.h = NotAResource
                /\ last.ret \in {make_error("Failed to create engine"),
                                 make_error("Failed to allocate resource")}
                /\ last.eng # NULL =>
                       (native[last.eng].st = "released" /\ native[last.eng].frees = 1)

\* The resource allocation failed and the engine just created was released.
C19_Witness ==
    /\ last.op = "engine_new"
    /\ last.ret = make_error("Failed to allocate resource")
    /\ last.eng # NULL
    /\ native[last.eng].st = "released"

\* C14: while any number of scan_file and scan_buffer calls overlap on a
\* compiled handle and nothing else is called, the handle's engine pointer and
\* initialized flag and the native engine stay as they were, no scan has a store
\* to the handle to make, every native scan is given the live engine, and every
\* finished scan returned the term the NIF returns when run alone on the handle
\* with the same arguments and the same native answer.
C14_ConcurrentScansAreSafe ==
    /\ handles[Shared] = engine_handle(owner[Shared], 1)
    /\ native[owner[Shared]] = NativeEngine("live", 0, 1, TRUE, TRUE)
    /\ \A c \in Callers :
           /\ callers[c].pc \in {"idle", "check_engine", "check_init", "native", "done"}
           /\ callers[c].stores = <<>>
           /\ ~callers[c].stale
           /\ callers[c].pc = "done" =>
                  /\ callers[c].ret = Nif(callers[c], handles[Shared], callers[c].nat).ret
                  /\ callers[c].ptr \in {NULL, owner[Shared]}

\* A scan_file found a virus while a scan_buffer, past its checks, was about to
\* make its native call.
C14_Witness ==
    \E c, d \in Callers :
        /\ callers[c].op = "scan_file"
        /\ callers[c].pc = "done"
        /\ callers[c].ret = OkVirus("Eicar-Signature")
        /\ callers[d].op = "scan_buffer"
        /\ callers[d].pc = "native"

\* C15: whatever calls overlap on one handle, engine_free among them, no cl_load,
\* cl_engine_compile, cl_scanfile, cl_scanmap_callback or cl_engine_get_num is
\* given an engine pointer that is NULL or has been released.
C15_Original ==
    \A c \in Callers : callers[c].op \in HandleOps => ~callers[c].stale

\* C16: no two overlapping engine_free calls release the same engine pointer.
C16_Original ==
    \A c, d \in Callers :
        (/\ c # d
         /\ callers[c].op = "engine_free"
         /\ callers[d].op = "engine_free"
         /\ callers[c].pc \in {"store", "done"}
         /\ callers[d].pc \in {"store", "done"}
         /\ callers[c].ptr # NULL)
            => callers[c].ptr # callers[d].ptr

====
